---- MODULE Spec2Model ----
(***************************************************************************)
(* State machine of the SwapButton component                               *)
(* (src/src/lib/components/Swap/SwapButton.tsx).                            *)
(*                                                                         *)
(* The variables are the values the component reads on a render (props and *)
(* hook results), its own React state (activeTrade), the promises started  *)
(* by onConfirm that have not settled yet, and the two external stores it  *)
(* writes (displayTxHashAtom, the transaction log).  Every action is one   *)
(* event of the UI event loop: a click, a settled promise, or an update of *)
(* a hook result followed by the re-render and the effects it triggers.    *)
(***************************************************************************)
EXTENDS Integers, Sequences, FiniteSets

\* ---------------------------------------------------------------- bounds
\* Number of times onConfirm may invoke swapCallback in one behaviour.
MaxSwaps == 2
\* Number of approval actions (wallet requests and pending transactions) that
\* may be outstanding together.
MaxApprovals == 2

\* ------------------------------------------------------------ value sets
NoTrade == "undefined"
Trades == {"T1", "T2"}
NoCurrency == "undefined"
Currencies == {"USDC"}
NoAmount == 0 - 1
\* Raw amounts: the quoted input and output of a trade, and the input-token
\* amounts a balance is drawn from (50 against a quoted 100 is the
\* insufficient-balance case).
QuotedInputs == {100}
QuotedOutputs == {5}
InputAmounts == {50} \cup QuotedInputs
NoChain == "undefined"
ChainIds == {"1"}
NoDeadline == "undefined"
Deadlines == {"D"}
NoHash == "undefined"
ApprovalTxHash == "0xapproval"
TradeTypes == {"EXACT_INPUT", "EXACT_OUTPUT"}

VARIABLES
    disabled,               \* prop of SwapButton
    chainId,                \* useActiveWeb3React()
    trade,                  \* useSwapInfo().trade.trade, the live trade
    inputCurrency,          \* useSwapInfo().currencies[INPUT]
    approvalCurrency,       \* useSwapCurrencyAmount(INPUT)?.currency
    inputCurrencyAmount,    \* useSwapInfo().currencyAmounts[INPUT]
    outputCurrencyAmount,   \* useSwapInfo().currencyAmounts[OUTPUT]
    inputCurrencyBalance,   \* useSwapInfo().currencyBalances[INPUT]
    tradeType,              \* useSwapTradeType()
    deadline,               \* useTransactionDeadline()
    notApproved,            \* useApproveAndPermit().notApproved
    supportsPermit,         \* useApproveAndPermit().supportsPermit
    sigRequests,            \* permit signature requests awaiting the wallet
    txRequests,             \* approval transactions awaiting the wallet
    pendingApprovals,       \* approval transactions in the pending registry
    activeTrade,            \* useState: the trade shown in the dialog
    inflight,               \* promises returned by swapCallback, not settled
    submitted,              \* number of swapCallback invocations so far
    displayTxHash,          \* displayTxHashAtom (0: never written)
    txLog,                  \* records passed to addTransaction
    unhandled,              \* an error escaped a handler of this component
    lastEvent,              \* the handler that ran last
    scenario                \* how far the run follows the approve-then-swap scenario

vars == <<disabled, chainId, trade, inputCurrency, approvalCurrency,
          inputCurrencyAmount, outputCurrencyAmount, inputCurrencyBalance,
          tradeType, deadline, notApproved, supportsPermit, sigRequests,
          txRequests, pendingApprovals, activeTrade, inflight, submitted,
          displayTxHash, txLog, unhandled, lastEvent, scenario>>

swapInfoVars == <<trade, inputCurrency, approvalCurrency, inputCurrencyAmount,
                  outputCurrencyAmount, inputCurrencyBalance, tradeType>>
walletVars == <<disabled, chainId, deadline>>
approvalVars == <<notApproved, supportsPermit, sigRequests, txRequests,
                  pendingApprovals>>
storeVars == <<displayTxHash, txLog>>

\* ------------------------------------------------- hook results (derived)
\* useApproveAndPermit().loadingSignature: a signature request is in flight.
loadingSignature == sigRequests > 0

\* useApproveAndPermit().pendingApproval: an approval transaction for
\* (input token, spender) is outstanding in the pending registry.
pendingApproval == pendingApprovals > 0

\* usePendingApproval(inputCurrency?.isToken ? inputCurrency : undefined, spender)
approvalHash ==
    IF inputCurrency # NoCurrency /\ pendingApprovals > 0
    THEN ApprovalTxHash ELSE NoHash

\* useSwapCallback().callback is present once a deadline is available.
swapCallback == deadline # NoDeadline

\* --------------------------------------------------- button derivation
NoAction ==
    [message |-> "none", symbol |-> NoCurrency, onClick |-> "none",
     children |-> "none", icon |-> "none", data |-> NoHash]

\* The first branch of actionProps: the control is disabled whatever the
\* approval state is.
Rule1(dis, chain, loadSig, amt, bal) ==
    \/ dis
    \/ chain = NoChain
    \/ loadSig
    \/ (amt # NoAmount /\ bal # NoAmount /\ bal < amt)

\* { disabled: true }
DisabledProps == [thrown |-> FALSE, disabled |-> TRUE, action |-> NoAction]

\* Mutant of NeedsApprovalProps: the invariant is missing and the message is
\* built without a currency.
NeedsApprovalProps_NoInvariant(permit, cur, apprCur) ==
    [thrown |-> FALSE, disabled |-> FALSE,
     action |-> [message |-> IF permit THEN "Allow first" ELSE "Approve first",
                 symbol |-> IF cur # NoCurrency THEN cur ELSE apprCur,
                 onClick |-> "handleApproveOrPermit",
                 children |-> IF permit THEN "Allow" ELSE "Approve",
                 icon |-> "none", data |-> NoHash]]

\* The descriptor of the notApproved branch; invariant(currency) throws when
\* neither the swap info nor the approval amount names a currency.
NeedsApprovalProps(permit, cur, apprCur) ==
    LET currency == IF cur # NoCurrency THEN cur ELSE apprCur IN
    IF currency = NoCurrency
    THEN [thrown |-> TRUE, disabled |-> FALSE, action |-> NoAction]
    ELSE [thrown |-> FALSE, disabled |-> FALSE,
          action |-> [message |-> IF permit THEN "Allow first" ELSE "Approve first",
                      symbol |-> currency,
                      onClick |-> "handleApproveOrPermit",
                      children |-> IF permit THEN "Allow" ELSE "Approve",
                      icon |-> "none", data |-> NoHash]]

\* The descriptor of the pendingApproval branch.
PendingProps(hash) ==
    [thrown |-> FALSE, disabled |-> TRUE,
     action |-> [message |-> "Approval pending", symbol |-> NoCurrency,
                 onClick |-> "handleApproveOrPermit", children |-> "Approve",
                 icon |-> "Spinner", data |-> hash]]

\* {}
ReadyProps == [thrown |-> FALSE, disabled |-> FALSE, action |-> NoAction]

\* Mutant of ActionPropsOf: the approval branches are tested before the
\* rule-1 branch.
ActionPropsOf_ApprovalFirst(dis, chain, loadSig, amt, bal, notAppr, pend, permit, cur, apprCur, hash) ==
    IF notAppr THEN NeedsApprovalProps(permit, cur, apprCur)
    ELSE IF pend THEN PendingProps(hash)
    ELSE IF Rule1(dis, chain, loadSig, amt, bal) THEN DisabledProps
    ELSE ReadyProps

\* Mutant of ActionPropsOf: the two labels of the notApproved branch are
\* swapped.
ActionPropsOf_SwappedLabel(dis, chain, loadSig, amt, bal, notAppr, pend, permit, cur, apprCur, hash) ==
    IF Rule1(dis, chain, loadSig, amt, bal) THEN DisabledProps
    ELSE IF notAppr THEN NeedsApprovalProps(~permit, cur, apprCur)
    ELSE IF pend THEN PendingProps(hash)
    ELSE ReadyProps

\* Mutant of ActionPropsOf: the pendingApproval branch is missing.
ActionPropsOf_NoPendingBranch(dis, chain, loadSig, amt, bal, notAppr, pend, permit, cur, apprCur, hash) ==
    IF Rule1(dis, chain, loadSig, amt, bal) THEN DisabledProps
    ELSE IF notAppr THEN NeedsApprovalProps(permit, cur, apprCur)
    ELSE ReadyProps

\* Mutant of ActionPropsOf: the pendingApproval branch forgets disabled: true.
ActionPropsOf_PendingEnabled(dis, chain, loadSig, amt, bal, notAppr, pend, permit, cur, apprCur, hash) ==
    IF Rule1(dis, chain, loadSig, amt, bal) THEN DisabledProps
    ELSE IF notAppr THEN NeedsApprovalProps(permit, cur, apprCur)
    ELSE IF pend THEN [PendingProps(hash) EXCEPT !.disabled = FALSE]
    ELSE ReadyProps

\* actionProps (the useMemo body).  thrown: invariant(currency) failed, the
\* render threw and there is no descriptor.
ActionPropsOf(dis, chain, loadSig, amt, bal, notAppr, pend, permit, cur, apprCur, hash) ==
    IF Rule1(dis, chain, loadSig, amt, bal) THEN DisabledProps
    ELSE IF notAppr THEN NeedsApprovalProps(permit, cur, apprCur)
    ELSE IF pend THEN PendingProps(hash)
    ELSE ReadyProps

\* actionProps of the current render.
actionProps ==
    ActionPropsOf(disabled, chainId, loadingSignature, inputCurrencyAmount,
                  inputCurrencyBalance, notApproved, pendingApproval,
                  supportsPermit, inputCurrency, approvalCurrency, approvalHash)

\* The four button states of the derivation policy, read off a descriptor.
ButtonState(ap) ==
    IF ap.thrown THEN "thrown"
    ELSE IF ap.disabled /\ ap.action = NoAction THEN "disabled"
    ELSE IF ap.disabled THEN "approval-pending"
    ELSE IF ap.action # NoAction THEN "needs-approval"
    ELSE "ready"

\* <ActionButton onClick=... {...actionProps}>: what a click on the button
\* runs.  A disabled button takes no click; a button with an action
\* descriptor runs the descriptor's onClick; otherwise the onClick prop.
ClickTarget(ap) ==
    IF ap.thrown \/ ap.disabled THEN "none"
    ELSE IF ap.action # NoAction THEN ap.action.onClick
    ELSE "setActiveTrade"

\* ------------------------------------------------------------- handlers
\* handleApproveOrPermit: what one invocation requests from the wallet.
HandleApproveOrPermit(permit) ==
    IF permit THEN "signature" ELSE "transaction"

\* Mutant of OnClickActiveTrade: the dialog is given the first quote instead
\* of the live one.
OnClickActiveTrade_Stale(liveTrade) ==
    IF liveTrade = NoTrade THEN NoTrade ELSE "T1"

\* onClick of the primary button: setActiveTrade(trade.trade).
OnClickActiveTrade(liveTrade) == liveTrade

\* Mutant of EffectActiveTrade: the effect is missing, the dialog keeps the
\* trade it was opened on.
EffectActiveTrade_Keep(at, liveTrade) == at

\* Mutant of EffectActiveTrade: the effect copies the live trade whether or
\* not a dialog is open.
EffectActiveTrade_Always(at, liveTrade) == liveTrade

\* The effect on [trade]: setActiveTrade((activeTrade) => activeTrade && trade.trade).
EffectActiveTrade(at, liveTrade) == IF at # NoTrade THEN liveTrade ELSE at

\* Mutant of OnCloseActiveTrade: onClose leaves the state as it is.
OnCloseActiveTrade_Keep(at) == at

\* onClose of the dialog: setActiveTrade(undefined).
OnCloseActiveTrade(at) == NoTrade

\* onConfirm: swapCallback?.() ... ; the optional call starts a submission
\* only when the callback is present, and the whole chain is skipped otherwise.
OnConfirmInvokes(callbackPresent) == callbackPresent

\* The values the onConfirm closure of the current render holds, with the
\* hash the response of this submission will carry.
Closure(hash) ==
    [hash |-> hash, tradeType |-> tradeType,
     inputCurrencyAmount |-> inputCurrencyAmount,
     outputCurrencyAmount |-> outputCurrencyAmount]

\* Mutant of ThenDisplayTxHash: the display write is missing.
ThenDisplayTxHash_Skip(old, c) == old

\* .then, first statement: setDisplayTxHash(response.hash).
ThenDisplayTxHash(old, c) == c.hash

\* Mutant of ThenTxLog: the record carries the two amounts in each other's
\* place.
ThenTxLog_SwappedAmounts(log, c) ==
    IF c.inputCurrencyAmount # NoAmount /\ c.outputCurrencyAmount # NoAmount
    THEN Append(log, [response |-> c.hash, type |-> "SWAP",
                      tradeType |-> c.tradeType,
                      inputCurrencyAmount |-> c.outputCurrencyAmount,
                      outputCurrencyAmount |-> c.inputCurrencyAmount])
    ELSE log

\* Mutant of ThenTxLog: the record is appended before the amounts are checked.
ThenTxLog_Unchecked(log, c) ==
    Append(log, [response |-> c.hash, type |-> "SWAP",
                 tradeType |-> c.tradeType,
                 inputCurrencyAmount |-> c.inputCurrencyAmount,
                 outputCurrencyAmount |-> c.outputCurrencyAmount])

\* .then, after the display write: invariant(in && out); addTransaction(...).
\* A failed invariant throws into .catch and nothing is appended.
ThenTxLog(log, c) ==
    IF c.inputCurrencyAmount # NoAmount /\ c.outputCurrencyAmount # NoAmount
    THEN Append(log, [response |-> c.hash, type |-> "SWAP",
                      tradeType |-> c.tradeType,
                      inputCurrencyAmount |-> c.inputCurrencyAmount,
                      outputCurrencyAmount |-> c.outputCurrencyAmount])
    ELSE log

\* Mutant of CatchDisplayTxHash: the failed submission is published too.
CatchDisplayTxHash_Publish(old, c) == c.hash

\* .catch on a rejected submission: console.log(error), nothing else.
CatchTxLog(log, c) == log
CatchDisplayTxHash(old, c) == old

\* Whether an error leaves the chain: .catch handles every rejection and
\* every throw of the .then handler.
CatchUnhandled(old) == old

\* Mutant of FinallyActiveTrade: the cleanup is missing.
FinallyActiveTrade_Keep(at) == at

\* .finally: setActiveTrade(undefined).
FinallyActiveTrade(at) == NoTrade

\* ------------------------------------------------------------ scenario
\* The approve-then-swap scenario starts from a quoted trade with sufficient
\* balance, a deadline, no allowance, a token without permit, and nothing
\* requested, submitted or recorded yet.
ScenarioStart ==
    /\ trade # NoTrade
    /\ inputCurrencyAmount # NoAmount
    /\ outputCurrencyAmount # NoAmount
    /\ inputCurrencyBalance # NoAmount
    /\ inputCurrencyBalance >= inputCurrencyAmount
    /\ deadline # NoDeadline
    /\ notApproved
    /\ ~supportsPermit
    /\ sigRequests + txRequests + pendingApprovals = 0
    /\ activeTrade = NoTrade
    /\ inflight = {}
    /\ txLog = <<>>

\* The stage of the scenario after a step: the next stage when the step is
\* the scenario's next event (approve click, the approval entering the
\* registry, its clearing with the allowance granted, the primary click, the
\* confirm, the success), "off" after any other step.
ScenarioStep ==
    IF scenario = "off" /\ ScenarioStart /\ lastEvent' = "approveClick"
        THEN "requested"
    ELSE IF /\ scenario = "requested"
            /\ pendingApprovals' = pendingApprovals + 1
            /\ ~notApproved'
        THEN "approval-pending"
    ELSE IF /\ scenario = "approval-pending"
            /\ pendingApprovals' = pendingApprovals - 1
            /\ ~notApproved'
        THEN "ready"
    ELSE IF scenario = "ready" /\ lastEvent' = "primaryClick" THEN "dialog"
    ELSE IF scenario = "dialog" /\ lastEvent' = "confirm" THEN "submitting"
    ELSE IF scenario = "submitting" /\ lastEvent' = "swapResolved" THEN "done"
    ELSE "off"

\* -------------------------------------------------------------- actions
OutstandingApprovals == sigRequests + txRequests + pendingApprovals

\* A click on the primary button in the ready state (line 168).
PrimaryClick ==
    /\ ClickTarget(actionProps) = "setActiveTrade"
    /\ activeTrade' = OnClickActiveTrade(trade)
    /\ lastEvent' = "primaryClick"
    /\ UNCHANGED <<swapInfoVars, walletVars, approvalVars, storeVars,
                   inflight, submitted, unhandled>>
    /\ scenario' = ScenarioStep

\* A click on the button while it carries the approval action (line 93).
ApproveClick ==
    /\ ClickTarget(actionProps) = "handleApproveOrPermit"
    /\ OutstandingApprovals < MaxApprovals
    /\ LET req == HandleApproveOrPermit(supportsPermit) IN
        /\ sigRequests' = IF req = "signature" THEN sigRequests + 1 ELSE sigRequests
        /\ txRequests' = IF req = "transaction" THEN txRequests + 1 ELSE txRequests
    /\ lastEvent' = "approveClick"
    /\ UNCHANGED <<swapInfoVars, walletVars, notApproved, supportsPermit,
                   pendingApprovals, storeVars, activeTrade, inflight,
                   submitted, unhandled>>
    /\ scenario' = ScenarioStep

\* The wallet returns a permit signature: the trade no longer needs approval.
SignatureGranted ==
    /\ sigRequests > 0
    /\ sigRequests' = sigRequests - 1
    /\ notApproved' = FALSE
    /\ lastEvent' = "update"
    /\ UNCHANGED <<swapInfoVars, walletVars, supportsPermit, txRequests,
                   pendingApprovals, storeVars, activeTrade, inflight,
                   submitted, unhandled>>
    /\ scenario' = ScenarioStep

\* The user declines the signature request.
SignatureRejected ==
    /\ sigRequests > 0
    /\ sigRequests' = sigRequests - 1
    /\ lastEvent' = "update"
    /\ UNCHANGED <<swapInfoVars, walletVars, notApproved, supportsPermit,
                   txRequests, pendingApprovals, storeVars, activeTrade,
                   inflight, submitted, unhandled>>
    /\ scenario' = ScenarioStep

\* The wallet submits an approval transaction: its hash enters the pending
\* registry, and the resolver re-evaluates notApproved.
ApprovalSubmitted ==
    /\ txRequests > 0
    /\ txRequests' = txRequests - 1
    /\ pendingApprovals' = pendingApprovals + 1
    /\ notApproved' \in BOOLEAN
    /\ lastEvent' = "update"
    /\ UNCHANGED <<swapInfoVars, walletVars, supportsPermit, sigRequests,
                   storeVars, activeTrade, inflight, submitted, unhandled>>
    /\ scenario' = ScenarioStep

\* The user declines the approval transaction.
ApprovalRejected ==
    /\ txRequests > 0
    /\ txRequests' = txRequests - 1
    /\ lastEvent' = "update"
    /\ UNCHANGED <<swapInfoVars, walletVars, notApproved, supportsPermit,
                   sigRequests, pendingApprovals, storeVars, activeTrade,
                   inflight, submitted, unhandled>>
    /\ scenario' = ScenarioStep

\* A pending approval transaction leaves the registry (mined or dropped),
\* and the resolver re-evaluates notApproved.
ApprovalCleared ==
    /\ pendingApprovals > 0
    /\ pendingApprovals' = pendingApprovals - 1
    /\ notApproved' \in BOOLEAN
    /\ lastEvent' = "update"
    /\ UNCHANGED <<swapInfoVars, walletVars, supportsPermit, sigRequests,
                   txRequests, storeVars, activeTrade, inflight, submitted,
                   unhandled>>
    /\ scenario' = ScenarioStep

\* The allowance check changes its answer.
AllowanceUpdate ==
    /\ notApproved' = ~notApproved
    /\ lastEvent' = "update"
    /\ UNCHANGED <<swapInfoVars, walletVars, supportsPermit, sigRequests,
                   txRequests, pendingApprovals, storeVars, activeTrade,
                   inflight, submitted, unhandled>>
    /\ scenario' = ScenarioStep

\* The dialog's close control (line 174); the dialog is rendered only while
\* activeTrade is set (line 173).
DialogClose ==
    /\ ~actionProps.thrown
    /\ activeTrade # NoTrade
    /\ activeTrade' = OnCloseActiveTrade(activeTrade)
    /\ lastEvent' = "dialogClose"
    /\ UNCHANGED <<swapInfoVars, walletVars, approvalVars, storeVars,
                   inflight, submitted, unhandled>>
    /\ scenario' = ScenarioStep

\* The confirm control of SummaryDialog runs onConfirm (lines 142-162, 175).
\* The dialog is rendered, with the same onConfirm, for as long as
\* activeTrade is set; onConfirm keeps no record of a submission in flight.
ConfirmClick ==
    /\ ~actionProps.thrown
    /\ activeTrade # NoTrade
    /\ IF OnConfirmInvokes(swapCallback)
       THEN /\ submitted < MaxSwaps
            /\ submitted' = submitted + 1
            /\ inflight' = inflight \cup {Closure(submitted + 1)}
            /\ lastEvent' = "confirm"
       ELSE /\ UNCHANGED <<submitted, inflight>>
            /\ lastEvent' = "confirmNoCallback"
    /\ UNCHANGED <<swapInfoVars, walletVars, approvalVars, storeVars,
                   activeTrade, unhandled>>
    /\ scenario' = ScenarioStep

\* A submission resolves with a response: .then, then .finally.
SwapResolved(c) ==
    /\ c \in inflight
    /\ inflight' = inflight \ {c}
    /\ displayTxHash' = ThenDisplayTxHash(displayTxHash, c)
    /\ txLog' = ThenTxLog(txLog, c)
    /\ unhandled' = CatchUnhandled(unhandled)
    /\ activeTrade' = FinallyActiveTrade(activeTrade)
    /\ lastEvent' = "swapResolved"
    /\ UNCHANGED <<swapInfoVars, walletVars, approvalVars, submitted>>
    /\ scenario' = ScenarioStep

\* A submission rejects: .catch, then .finally.
SwapRejected(c) ==
    /\ c \in inflight
    /\ inflight' = inflight \ {c}
    /\ displayTxHash' = CatchDisplayTxHash(displayTxHash, c)
    /\ txLog' = CatchTxLog(txLog, c)
    /\ unhandled' = CatchUnhandled(unhandled)
    /\ activeTrade' = FinallyActiveTrade(activeTrade)
    /\ lastEvent' = "swapRejected"
    /\ UNCHANGED <<swapInfoVars, walletVars, approvalVars, submitted>>
    /\ scenario' = ScenarioStep

\* The quote source delivers a new live trade; the effect on [trade] runs.
TradeUpdate(t) ==
    /\ t # trade
    /\ trade' = t
    /\ activeTrade' = EffectActiveTrade(activeTrade, t)
    /\ lastEvent' = "tradeUpdate"
    /\ UNCHANGED <<inputCurrency, approvalCurrency, inputCurrencyAmount,
                   outputCurrencyAmount, inputCurrencyBalance, tradeType,
                   walletVars, approvalVars, storeVars, inflight, submitted,
                   unhandled>>
    /\ scenario' = ScenarioStep

\* The quote source delivers new currency amounts.
AmountsUpdate(a, b) ==
    /\ <<a, b>> # <<inputCurrencyAmount, outputCurrencyAmount>>
    /\ inputCurrencyAmount' = a
    /\ outputCurrencyAmount' = b
    /\ lastEvent' = "update"
    /\ UNCHANGED <<trade, inputCurrency, approvalCurrency,
                   inputCurrencyBalance, tradeType, walletVars, approvalVars,
                   storeVars, activeTrade, inflight, submitted, unhandled>>
    /\ scenario' = ScenarioStep

\* The deadline provider gains or loses its value.
DeadlineUpdate(d) ==
    /\ d # deadline
    /\ deadline' = d
    /\ lastEvent' = "update"
    /\ UNCHANGED <<swapInfoVars, disabled, chainId, approvalVars, storeVars,
                   activeTrade, inflight, submitted, unhandled>>
    /\ scenario' = ScenarioStep

\* The parent re-renders the component with the other value of `disabled`.
DisabledUpdate ==
    /\ disabled' = ~disabled
    /\ lastEvent' = "update"
    /\ UNCHANGED <<swapInfoVars, chainId, deadline, approvalVars, storeVars,
                   activeTrade, inflight, submitted, unhandled>>
    /\ scenario' = ScenarioStep

\* ------------------------------------------------------- specifications
\* State after the first render: no dialog, nothing submitted, stores empty.
InitComponent ==
    /\ activeTrade = NoTrade
    /\ inflight = {}
    /\ submitted = 0
    /\ displayTxHash = 0
    /\ txLog = <<>>
    /\ unhandled = FALSE
    /\ lastEvent = "mount"
    /\ scenario = "off"
    /\ sigRequests = 0
    /\ txRequests = 0

\* Lifecycle: connected wallet, known currencies, sufficient balance; the
\* trade, the amounts, the deadline, `disabled` and the approval state move.
Init ==
    /\ InitComponent
    /\ disabled = FALSE
    /\ chainId \in ChainIds
    /\ trade = NoTrade
    /\ inputCurrency \in Currencies
    /\ approvalCurrency \in Currencies
    /\ inputCurrencyAmount = NoAmount
    /\ outputCurrencyAmount = NoAmount
    /\ inputCurrencyBalance \in QuotedInputs
    /\ tradeType = "EXACT_INPUT"
    /\ deadline = NoDeadline
    /\ notApproved \in BOOLEAN
    /\ supportsPermit \in BOOLEAN
    /\ pendingApprovals = 0

Next ==
    \/ PrimaryClick
    \/ ApproveClick
    \/ SignatureGranted
    \/ SignatureRejected
    \/ ApprovalSubmitted
    \/ ApprovalRejected
    \/ ApprovalCleared
    \/ AllowanceUpdate
    \/ DialogClose
    \/ ConfirmClick
    \/ \E c \in inflight : SwapResolved(c)
    \/ \E c \in inflight : SwapRejected(c)
    \/ \E t \in Trades \cup {NoTrade} : TradeUpdate(t)
    \/ \E a \in QuotedInputs \cup {NoAmount}, b \in QuotedOutputs \cup {NoAmount} : AmountsUpdate(a, b)
    \/ \E d \in Deadlines \cup {NoDeadline} : DeadlineUpdate(d)

Spec == Init /\ [][Next]_vars

\* Derivation: every combination of the values actionProps and onConfirm read
\* is a first render; the clicks the rendered button and dialog accept, and
\* the outcomes of the submissions they start, follow.
InitInputs ==
    /\ InitComponent
    /\ disabled \in BOOLEAN
    /\ chainId \in ChainIds \cup {NoChain}
    /\ trade \in Trades \cup {NoTrade}
    /\ inputCurrency \in Currencies \cup {NoCurrency}
    /\ approvalCurrency \in Currencies \cup {NoCurrency}
    /\ inputCurrencyAmount \in InputAmounts \cup {NoAmount}
    /\ outputCurrencyAmount \in QuotedOutputs \cup {NoAmount}
    /\ inputCurrencyBalance \in InputAmounts \cup {NoAmount}
    /\ tradeType \in TradeTypes
    /\ deadline \in Deadlines
    /\ notApproved \in BOOLEAN
    /\ supportsPermit \in BOOLEAN
    /\ pendingApprovals \in {0, 1}

NextInputs ==
    \/ PrimaryClick
    \/ ApproveClick
    \/ DialogClose
    \/ ConfirmClick
    \/ \E c \in inflight : SwapResolved(c)
    \/ \E c \in inflight : SwapRejected(c)
    \/ DisabledUpdate

SpecInputs == InitInputs /\ [][NextInputs]_vars

\* =============================================================== claims
\* The rule-1 condition written out from the values of the render.
InsufficientBalance ==
    /\ inputCurrencyAmount # NoAmount
    /\ inputCurrencyBalance # NoAmount
    /\ inputCurrencyBalance < inputCurrencyAmount

RuleOneHolds ==
    disabled \/ chainId = NoChain \/ loadingSignature \/ InsufficientBalance

CurrencyKnown == inputCurrency # NoCurrency \/ approvalCurrency # NoCurrency

\* C1: at most one swap submission is outstanding at any time: between an
\* invocation of swapCallback and the settlement of its promise there is no
\* second invocation.
C1_AtMostOneSubmission == Cardinality(inflight) <= 1

\* C2: at most one approval action (signature request, approval transaction
\* awaiting the wallet, or pending approval transaction) is outstanding at
\* any time.
C2_AtMostOneApproval == OutstandingApprovals <= 1

\* C3: right after a submission promise settles (resolved, rejected, or
\* resolved with the success handler failing), activeTrade is absent.
C3_SettledClosesDialog ==
    lastEvent \in {"swapResolved", "swapRejected"} => activeTrade = NoTrade

\* C3 witness: a submission resolved, its success handler failed on the
\* missing amounts (display written, nothing recorded), and the dialog closed.
C3_Witness ==
    /\ lastEvent = "swapResolved"
    /\ displayTxHash # 0
    /\ txLog = <<>>
    /\ activeTrade = NoTrade

\* C4: onConfirm clears activeTrade also when swapCallback is absent: after a
\* confirm click that found no callback, activeTrade is absent.
C4_ConfirmWithoutCallbackClears ==
    lastEvent = "confirmNoCallback" => activeTrade = NoTrade

\* C5 as stated: after every successful submission the display slot holds the
\* response's hash and the newest record of the log is the SWAP record of
\* that response.
C5_EverySuccessRecorded ==
    lastEvent = "swapResolved" =>
        /\ Len(txLog) > 0
        /\ txLog[Len(txLog)].response = displayTxHash
        /\ txLog[Len(txLog)].type = "SWAP"

\* The closure a confirm step adds is made of the values of that render.
C5_ConfirmCapturesRender ==
    lastEvent' = "confirm" =>
        \E c \in inflight' \ inflight :
            /\ inflight' = inflight \cup {c}
            /\ c.tradeType = tradeType
            /\ c.inputCurrencyAmount = inputCurrencyAmount
            /\ c.outputCurrencyAmount = outputCurrencyAmount

\* A resolve step writes the response's hash to the display slot, and appends
\* exactly the SWAP record of the settled submission when both of its amounts
\* were present, and nothing otherwise.
C5_ResolveWrites ==
    lastEvent' = "swapResolved" =>
        \E c \in inflight \ inflight' :
            /\ displayTxHash' = c.hash
            /\ IF c.inputCurrencyAmount # NoAmount /\ c.outputCurrencyAmount # NoAmount
               THEN txLog' = Append(txLog,
                        [response |-> c.hash, type |-> "SWAP",
                         tradeType |-> c.tradeType,
                         inputCurrencyAmount |-> c.inputCurrencyAmount,
                         outputCurrencyAmount |-> c.outputCurrencyAmount])
               ELSE txLog' = txLog

\* The stores are written by resolve steps only.
C5_OnlyResolveWrites ==
    (txLog' # txLog \/ displayTxHash' # displayTxHash) => lastEvent' = "swapResolved"

\* No response is recorded twice.
C5_NoDuplicateRecord ==
    \A i, j \in 1 .. Len(txLog) : txLog[i].response = txLog[j].response => i = j

\* C5 (amended): on every successful submission the display slot holds the
\* response's hash; the log gains exactly one SWAP record with the trade type
\* and the amounts onConfirm held at the click when both amounts were present,
\* and no record when one was missing; no confirm appends more than one
\* record, and only a successful submission writes either store.
C5_SuccessRecordedWhenAmountsPresent ==
    /\ []C5_NoDuplicateRecord
    /\ [][C5_ConfirmCapturesRender /\ C5_ResolveWrites /\ C5_OnlyResolveWrites]_vars

\* C5 witness: a submission resolved and its record is the only one in the log.
C5_Witness ==
    /\ lastEvent = "swapResolved"
    /\ Len(txLog) = 1
    /\ txLog[1].response = displayTxHash
    /\ txLog[1].inputCurrencyAmount \in QuotedInputs
    /\ txLog[1].outputCurrencyAmount \in QuotedOutputs

\* C6: a rejected submission changes neither the log nor the display slot,
\* lets no error escape, leaves the button as it was and closes the dialog.
C6_FailedSwapLeavesStores ==
    [][lastEvent' = "swapRejected" =>
        /\ txLog' = txLog
        /\ displayTxHash' = displayTxHash
        /\ unhandled' = FALSE
        /\ actionProps' = actionProps
        /\ activeTrade' = NoTrade]_vars

\* C6 witness: a submission was rejected from an open dialog; the stores are
\* as they were at mount and the dialog is closed.
C6_Witness ==
    /\ lastEvent = "swapRejected"
    /\ submitted = 1
    /\ inflight = {}
    /\ txLog = <<>>
    /\ displayTxHash = 0
    /\ activeTrade = NoTrade

\* C7: whenever rule 1 applies, the descriptor is { disabled: true } with no
\* action, whatever notApproved, pendingApproval and supportsPermit are.
C7_RuleOnePrecedence ==
    RuleOneHolds =>
        /\ ~actionProps.thrown
        /\ actionProps.disabled
        /\ actionProps.action = NoAction

\* C7 witness: the balance alone disables a control that is not approved, has
\* an approval pending and supports permit.
C7_Witness ==
    /\ InsufficientBalance
    /\ ~disabled /\ chainId # NoChain /\ ~loadingSignature
    /\ notApproved /\ pendingApproval /\ supportsPermit
    /\ ButtonState(actionProps) = "disabled"

\* C8: whenever the pending registry holds an approval hash for (input token,
\* spender) and rule 1 does not apply, the state is approval-pending and the
\* control is disabled, whatever notApproved is.
C8_PendingHashDisables ==
    (approvalHash # NoHash /\ ~RuleOneHolds) =>
        /\ ButtonState(actionProps) = "approval-pending"
        /\ actionProps.disabled

\* C9 as stated: whenever rule 1 does not apply and notApproved is true, the
\* state is needs-approval.
C9_NotApprovedNeedsApproval ==
    (~RuleOneHolds /\ notApproved) => ButtonState(actionProps) = "needs-approval"

\* The descriptor of the needs-approval state.
C9_Descriptor ==
    (~RuleOneHolds /\ notApproved /\ CurrencyKnown) =>
        /\ ButtonState(actionProps) = "needs-approval"
        /\ ~actionProps.disabled
        /\ ClickTarget(actionProps) = "handleApproveOrPermit"
        /\ actionProps.action.symbol =
              (IF inputCurrency # NoCurrency THEN inputCurrency ELSE approvalCurrency)
        /\ actionProps.action.message =
              (IF supportsPermit THEN "Allow first" ELSE "Approve first")
        /\ actionProps.action.children =
              (IF supportsPermit THEN "Allow" ELSE "Approve")

\* One accepted click in that state makes one request of the right kind.
C9_OneRequestPerClick ==
    (lastEvent' = "approveClick" /\ notApproved) =>
        /\ ButtonState(actionProps) = "needs-approval"
        /\ sigRequests' = sigRequests + (IF supportsPermit THEN 1 ELSE 0)
        /\ txRequests' = txRequests + (IF supportsPermit THEN 0 ELSE 1)
        /\ pendingApprovals' = pendingApprovals

\* C9 (amended): when rule 1 does not apply, notApproved is true and an input
\* currency is known, the state is needs-approval: enabled, its action is
\* handleApproveOrPermit, labelled "Allow <symbol> first"/"Allow" exactly when
\* supportsPermit and "Approve <symbol> first"/"Approve" otherwise, and one
\* click makes exactly one approval request (a signature when supportsPermit,
\* otherwise a transaction).
C9_NeedsApprovalWhenCurrencyKnown ==
    /\ []C9_Descriptor
    /\ [][C9_OneRequestPerClick]_vars

\* C9 witness: a click in the needs-approval state of a permit token left one
\* signature request.
C9_Witness ==
    /\ lastEvent = "approveClick"
    /\ notApproved /\ supportsPermit /\ CurrencyKnown
    /\ sigRequests = 1 /\ txRequests = 0

\* In the ready state the button takes the primary click.
C10_ReadyState ==
    (~RuleOneHolds /\ ~notApproved /\ ~pendingApproval) =>
        /\ ButtonState(actionProps) = "ready"
        /\ ClickTarget(actionProps) = "setActiveTrade"

\* A primary click is taken in the ready state only and sets activeTrade to
\* the live trade of that render.
C10_ClickSnapshots ==
    lastEvent' = "primaryClick" =>
        /\ ButtonState(actionProps) = "ready"
        /\ activeTrade' = trade
        /\ trade' = trade

\* C10: when rule 1 does not apply and neither notApproved nor pendingApproval
\* is true the state is ready and the button takes the primary click; that
\* click sets activeTrade to exactly the live trade of the click, which opens
\* the dialog on it.
C10_ReadyClickOpensLiveTrade ==
    /\ []C10_ReadyState
    /\ [][C10_ClickSnapshots]_vars

\* C10 witness: the quote moved from T1 to T2 and the click opened the dialog
\* on T2.
C10_Witness ==
    /\ lastEvent = "primaryClick"
    /\ trade = "T2"
    /\ activeTrade = "T2"
    /\ ~notApproved /\ ~pendingApproval /\ ~RuleOneHolds

\* A trade update replaces a set activeTrade by the new live trade and leaves
\* an absent one absent.
C11_UpdateStep ==
    trade' # trade =>
        activeTrade' = (IF activeTrade # NoTrade THEN trade' ELSE NoTrade)

\* An open dialog shows the live trade.
C11_DialogShowsLiveTrade == activeTrade # NoTrade => activeTrade = trade

\* C11: on every update of the live trade a set activeTrade is replaced by the
\* new live trade and an absent one stays absent; hence an open dialog always
\* shows the current live trade, never an earlier quote.
C11_ActiveTradeFollowsLiveTrade ==
    /\ []C11_DialogShowsLiveTrade
    /\ [][C11_UpdateStep]_vars

\* C11 witness: the quote moved to T2 while the dialog was open, and the
\* dialog shows T2.
C11_Witness ==
    /\ lastEvent = "tradeUpdate"
    /\ trade = "T2"
    /\ activeTrade = "T2"

\* C12: activeTrade goes from absent to present only by a click on the
\* primary button; no trade update, approval event, re-render or swap outcome
\* sets it.
C12_OnlyClickOpensDialog ==
    [][(activeTrade = NoTrade /\ activeTrade' # NoTrade) =>
            lastEvent' = "primaryClick"]_vars

\* C12 witness: a new quote arrived while no dialog was open and none opened.
C12_Witness ==
    /\ lastEvent = "tradeUpdate"
    /\ trade # NoTrade
    /\ activeTrade = NoTrade

\* The four states as shapes of the descriptor the button receives.
C13_IsDisabled(ap) == ap.disabled /\ ap.action = NoAction
C13_IsNeedsApproval(ap) ==
    /\ ~ap.disabled
    /\ ap.action # NoAction
    /\ ap.action.onClick = "handleApproveOrPermit"
    /\ ap.action.message \in {"Allow first", "Approve first"}
C13_IsPending(ap) ==
    /\ ap.disabled
    /\ ap.action # NoAction
    /\ ap.action.message = "Approval pending"
    /\ ap.action.icon = "Spinner"
C13_IsReady(ap) == ~ap.disabled /\ ap.action = NoAction

\* How many of the four states a descriptor is in.
C13_ActiveStates(ap) ==
    Cardinality({k \in {"disabled", "needs-approval", "approval-pending", "ready"} :
        \/ k = "disabled" /\ C13_IsDisabled(ap)
        \/ k = "needs-approval" /\ C13_IsNeedsApproval(ap)
        \/ k = "approval-pending" /\ C13_IsPending(ap)
        \/ k = "ready" /\ C13_IsReady(ap)})

\* C13: whenever the derivation completes, exactly one of disabled,
\* needs-approval, approval-pending and ready is active, and it is the one the
\* inputs select: the derivation is total and the states exclude each other.
C13_ExactlyOneState ==
    ~actionProps.thrown =>
        /\ C13_ActiveStates(actionProps) = 1
        /\ C13_IsDisabled(actionProps) <=> RuleOneHolds
        /\ C13_IsNeedsApproval(actionProps) <=> (~RuleOneHolds /\ notApproved)
        /\ C13_IsPending(actionProps) <=>
               (~RuleOneHolds /\ ~notApproved /\ pendingApproval)
        /\ C13_IsReady(actionProps) <=>
               (~RuleOneHolds /\ ~notApproved /\ ~pendingApproval)

\* C13 witness: a render whose inputs select approval-pending and whose
\* descriptor is in that state and in no other.
C13_Witness ==
    /\ ~actionProps.thrown
    /\ C13_IsPending(actionProps)
    /\ ~C13_IsDisabled(actionProps)
    /\ ~RuleOneHolds /\ ~notApproved /\ pendingApproval

\* C14: while the live trade is undefined the control is disabled, never
\* ready, and no click on the primary button is accepted.
C14_NoTradeNotReady ==
    trade = NoTrade =>
        /\ ButtonState(actionProps) # "ready"
        /\ ClickTarget(actionProps) # "setActiveTrade"

\* What each stage of the approve-then-swap scenario shows.
C15_Stages ==
    /\ scenario = "requested" =>
        /\ txRequests = 1
        /\ ButtonState(actionProps) = "needs-approval"
    /\ scenario = "approval-pending" =>
        /\ ButtonState(actionProps) = "approval-pending"
        /\ actionProps.action.data = ApprovalTxHash
    /\ scenario = "ready" => ButtonState(actionProps) = "ready"
    /\ scenario = "dialog" => activeTrade # NoTrade /\ activeTrade = trade
    /\ scenario = "submitting" =>
        /\ activeTrade # NoTrade
        /\ Cardinality(inflight) = 1
    /\ scenario = "done" =>
        /\ activeTrade = NoTrade
        /\ Len(txLog) = 1
        /\ txLog[1].type = "SWAP"
        /\ txLog[1].response = displayTxHash
        /\ txLog[1].inputCurrencyAmount = inputCurrencyAmount
        /\ txLog[1].outputCurrencyAmount = outputCurrencyAmount
        /\ inputCurrencyAmount \in QuotedInputs
        /\ outputCurrencyAmount \in QuotedOutputs

\* The approve click that opens the scenario is made in the needs-approval
\* state.
C15_StartsInNeedsApproval ==
    scenario' = "requested" => ButtonState(actionProps) = "needs-approval"

\* C15: the end-to-end scenario is a behaviour: from sufficient balance and no
\* allowance the control goes through needs-approval, approval-pending with
\* the approval's hash, ready, the open dialog, confirm and success, and ends
\* with the dialog closed and exactly one SWAP record carrying the trade's
\* input and output amounts.
C15_ScenarioRuns ==
    /\ []C15_Stages
    /\ [][C15_StartsInNeedsApproval]_vars

\* C15 witness: the scenario ran to its end.
C15_Witness == scenario = "done"

\* C16: the cleanup of a confirm runs only after its promise settles, and no
\* confirm is invoked between the start of a submission and the cleanup that
\* follows its settlement.
C16_NoConfirmBeforeCleanup ==
    [][lastEvent' \in {"confirm", "confirmNoCallback"} => inflight = {}]_vars

\* C17: closing the dialog before confirmation sets activeTrade to absent and
\* changes nothing else: no swap is submitted, the log and the display hash
\* stay, and an approval request in flight is left as it is, its pending
\* status still derived on the next render.
C17_CloseChangesOnlyActiveTrade ==
    [][lastEvent' = "dialogClose" =>
            /\ activeTrade' = NoTrade
            /\ UNCHANGED <<swapInfoVars, walletVars, approvalVars, storeVars,
                           inflight, submitted, unhandled>>
            /\ pendingApproval' = pendingApproval
            /\ approvalHash' = approvalHash
            /\ actionProps' = actionProps]_vars

\* C17 witness: the dialog was closed with nothing submitted while an approval
\* transaction is in the pending registry.
C17_Witness ==
    /\ lastEvent = "dialogClose"
    /\ activeTrade = NoTrade
    /\ submitted = 0
    /\ pendingApprovals > 0
    /\ approvalHash = ApprovalTxHash

\* When notApproved holds outside rule 1 and no input currency is known, the
\* derivation throws: there is no descriptor and no click is taken.
C18_DerivationThrows ==
    (~RuleOneHolds /\ notApproved /\ ~CurrencyKnown) =>
        /\ actionProps.thrown
        /\ ButtonState(actionProps) = "thrown"
        /\ ClickTarget(actionProps) = "none"

\* When a swap succeeds whose input or output amount is missing, no record is
\* appended, and the failed invariant stays inside the chain.
C18_RecordingFails ==
    \A c \in inflight :
        (/\ lastEvent' = "swapResolved"
         /\ c \notin inflight'
         /\ (c.inputCurrencyAmount = NoAmount \/ c.outputCurrencyAmount = NoAmount))
        => (txLog' = txLog /\ unhandled' = unhandled)

\* C18: precondition violations fail instead of going on: the derivation
\* throws when notApproved holds outside rule 1 with no input currency known,
\* and the recording of a successful swap fails, appending nothing, when the
\* input or output amount is missing.
C18_PreconditionsFail ==
    /\ []C18_DerivationThrows
    /\ [][C18_RecordingFails]_vars

\* C18 witness: a swap confirmed with an amount missing succeeded and left
\* the log empty.
C18_Witness ==
    /\ lastEvent = "swapResolved"
    /\ (inputCurrencyAmount = NoAmount \/ outputCurrencyAmount = NoAmount)
    /\ submitted = 1
    /\ inflight = {}
    /\ txLog = <<>>

\* C19 as stated: a swap is submitted only in the ready state: at every invocation of
\* swapCallback notApproved is false, pendingApproval is false and rule 1 is
\* false, whatever changed after the dialog was opened.
C19_SubmittedOnlyWhenReady ==
    [][lastEvent' = "confirm" =>
            (~notApproved /\ ~pendingApproval /\ ~RuleOneHolds)]_vars

\* C19 (amended): the dialog is opened only in the ready state; at
\* every accepted click on the primary button notApproved is false,
\* pendingApproval is false and rule 1 is false.  Nothing is tested again
\* when the confirm control invokes swapCallback.
C19_DialogOpenedOnlyWhenReady ==
    [][lastEvent' = "primaryClick" =>
            (~notApproved /\ ~pendingApproval /\ ~RuleOneHolds)]_vars

\* C19 witness: the dialog was opened in the ready state, the allowance was
\* then lost, and the confirm control still started a submission.
C19_Witness ==
    /\ lastEvent = "confirm"
    /\ inflight # {}
    /\ activeTrade # NoTrade
    /\ notApproved

\* C20 as stated: the two external writes happen together or not at all: the display
\* slot holds a hash written by this component only if the log holds a SWAP
\* record for the same response.
C20_DisplayImpliesRecord ==
    displayTxHash # 0 =>
        \E i \in 1..Len(txLog) :
            txLog[i].type = "SWAP" /\ txLog[i].response = displayTxHash

\* C20 (amended): a SWAP record is appended only in the step that
\* also writes its response's hash to the display slot, one record at a time;
\* the display write alone happens when the amount invariant fails.
C20_RecordImpliesDisplay ==
    [][txLog' # txLog =>
            /\ Len(txLog') = Len(txLog) + 1
            /\ SubSeq(txLog', 1, Len(txLog)) = txLog
            /\ txLog'[Len(txLog')].type = "SWAP"
            /\ txLog'[Len(txLog')].response = displayTxHash']_vars

\* C20 witness: a second swap succeeded and the display slot holds the hash
\* of the record appended last.
C20_Witness ==
    /\ lastEvent = "swapResolved"
    /\ Len(txLog) = 2
    /\ displayTxHash = txLog[2].response

====
